---- MODULE Spec2Model ----
(***************************************************************************)
(* Model of package fsm (fsm.go, errors.go): a Machine holding a registry  *)
(* of transition rules and a current state.  Every exported method takes   *)
(* m.mu for its whole body (Lock/RLock followed by a deferred unlock), so  *)
(* each method call is one atomic step of the machine.                     *)
(***************************************************************************)
EXTENDS Integers, Sequences, FiniteSets, TLC

\* ------------------------------------------------------------------ bounds

\* longest variadic destinationStates list a caller passes
MaxDests == 2

\* number of StateTransition calls the Scenario A caller records
MaxLog == 4

\* number of notifications dispatched under the callback specifications
MaxDispatch == 3

\* ------------------------------------------------------------- state names

\* State is a string; "" is the zero value of the type.
Sentinel == ""

\* the states callers use under Spec
States == {"", "a", "b"}

\* the states of the test suite's machine (setUpMachine)
ScenarioStates ==
    {"start", "started", "never_exist", "finishing", "aborted", "finished"}

\* the states callers use under SpecCopy
CopyStates == {"a", "b"}

\* the states the goroutines use
ConcStates == {"a", "b", "c"}

\* the states the goroutines use under SpecConcFair
FairStates == {"a", "b"}

\* the states callers use under SpecCallback
CallbackStates == {"a", "b", "c"}

\* every state some caller uses
AllStates ==
    States \cup ScenarioStates \cup CopyStates \cup ConcStates \cup FairStates
        \cup CallbackStates

\* the five AddStateTransitionRules calls of setUpMachine, in its order
SetUpCalls ==
    << [src |-> "start",     dests |-> <<"started", "never_exist">>],
       [src |-> "started",   dests |-> <<"finishing", "aborted">>],
       [src |-> "aborted",   dests |-> <<>>],
       [src |-> "finishing", dests |-> <<"finished">>],
       [src |-> "finished",  dests |-> <<>>] >>

\* the sources registered once the first i calls of setUpMachine have run
SetUpDone(i) == { SetUpCalls[j].src : j \in 1..i }

\* the registry setUpMachine builds
ScenarioRegistry ==
    [s \in {"start", "started", "aborted", "finishing", "finished"} |->
        CASE s = "start"     -> {"started", "never_exist"}
          [] s = "started"   -> {"finishing", "aborted"}
          [] s = "aborted"   -> {}
          [] s = "finishing" -> {"finished"}
          [] s = "finished"  -> {}]

\* sequences over S of length at most n
SeqsUpTo(S, n) == UNION { [1..k -> S] : k \in 0..n }

\* ------------------------------------------------------------- error codes

ErrorUnknown == 0
ErrorMachineNotInitialized == 1
ErrorTransitionNotPermitted == 2
ErrorStateUndefined == 3

\* a nil error value
NilError == [nil |-> TRUE, code |-> ErrorUnknown]

\* newErrorStruct(message, code); the message text is not modelled
newErrorStruct(code) == [nil |-> FALSE, code |-> code]

\* ---------------------------------------------------------------- helpers

\* a map with no entries (also what a nil map reads as)
EmptyMap == [k \in {} |-> {}]

\* _, ok := m.transitions[s]
Registered(tr, s) == s \in DOMAIN tr

\* m.transitions[s]: a missing key reads as the nil (empty) rule set
Lookup(tr, s) == IF s \in DOMAIN tr THEN tr[s] ELSE {}

\* TransitionRuleSet.Copy: a fresh set holding every rule of trs
Copy(trs) == { rule \in trs : TRUE }

\* the loop "for _, dest := range destinationStates { mp[dest] = struct{}{} }"
RECURSIVE InsertAll(_, _)
InsertAll(mp, destinationStates) ==
    IF destinationStates = <<>> THEN mp
    ELSE InsertAll(mp \cup {Head(destinationStates)}, Tail(destinationStates))

\* mutant: the source's rule set is re-made on every call (replace, not union)
AddRulesReplace(tr, sourceState, destinationStates) ==
    [k \in DOMAIN tr \cup {sourceState} |->
        IF k = sourceState THEN InsertAll({}, destinationStates) ELSE tr[k]]

\* mutant: every listed destination is registered as a key as well
AddRulesRegisterDests(tr, sourceState, destinationStates) ==
    [k \in DOMAIN tr \cup {sourceState}
            \cup { destinationStates[i] : i \in 1..Len(destinationStates) } |->
        IF k = sourceState
        THEN InsertAll(Lookup(tr, sourceState), destinationStates)
        ELSE Lookup(tr, k)]

\* the registry after AddStateTransitionRules(sourceState, destinationStates...)
AddRules(tr, sourceState, destinationStates) ==
    [k \in DOMAIN tr \cup {sourceState} |->
        IF k = sourceState
        THEN InsertAll(Lookup(tr, sourceState), destinationStates)
        ELSE tr[k]]

\* mutant: "return m.transitions[state], nil": the registry's own map is handed out
ReturnedSetAliased(tr, s) == [rules |-> tr[s], shared |-> TRUE]

\* "return m.transitions[state].Copy(), nil": Copy fills a map it has just made,
\* so the caller's set shares no storage with the registry
ReturnedSet(tr, s) == [rules |-> Copy(tr[s]), shared |-> FALSE]

\* mutant: a source registered with no destinations is reported as undefined
RulesOutcomeEmptyUndefined(alloc, tr, s) ==
    IF ~alloc
    THEN [err |-> newErrorStruct(ErrorMachineNotInitialized), rules |-> {}]
    ELSE IF Lookup(tr, s) = {}
    THEN [err |-> newErrorStruct(ErrorStateUndefined), rules |-> {}]
    ELSE [err |-> NilError, rules |-> Copy(tr[s])]

\* mutant: no nil-registry check in StateTransitionRules
RulesOutcomeNoNilCheck(alloc, tr, s) ==
    IF ~Registered(tr, s)
    THEN [err |-> newErrorStruct(ErrorStateUndefined), rules |-> {}]
    ELSE [err |-> NilError, rules |-> Copy(tr[s])]

\* what StateTransitionRules(s) returns
RulesOutcome(alloc, tr, s) ==
    IF ~alloc
    THEN [err |-> newErrorStruct(ErrorMachineNotInitialized), rules |-> {}]
    ELSE IF ~Registered(tr, s)
    THEN [err |-> newErrorStruct(ErrorStateUndefined), rules |-> {}]
    ELSE [err |-> NilError, rules |-> Copy(tr[s])]

\* mutant: the subsequent path omits the destination-registration check
TransitionOutcomeNoDefinedCheck(alloc, tr, st, toState) ==
    IF ~alloc
    THEN [err |-> newErrorStruct(ErrorMachineNotInitialized), state |-> st]
    ELSE IF st = Sentinel
    THEN IF ~Registered(tr, toState)
         THEN [err |-> newErrorStruct(ErrorStateUndefined), state |-> st]
         ELSE [err |-> NilError, state |-> toState]
    ELSE IF toState \notin Lookup(tr, st)
    THEN [err |-> newErrorStruct(ErrorTransitionNotPermitted), state |-> st]
    ELSE [err |-> NilError, state |-> toState]

\* mutant: the subsequent path tests registration before permission
TransitionOutcomeSwappedChecks(alloc, tr, st, toState) ==
    IF ~alloc
    THEN [err |-> newErrorStruct(ErrorMachineNotInitialized), state |-> st]
    ELSE IF st = Sentinel
    THEN IF ~Registered(tr, toState)
         THEN [err |-> newErrorStruct(ErrorStateUndefined), state |-> st]
         ELSE [err |-> NilError, state |-> toState]
    ELSE IF ~Registered(tr, toState)
    THEN [err |-> newErrorStruct(ErrorStateUndefined), state |-> st]
    ELSE IF toState \notin Lookup(tr, st)
    THEN [err |-> newErrorStruct(ErrorTransitionNotPermitted), state |-> st]
    ELSE [err |-> NilError, state |-> toState]

\* mutant: the initial path accepts any target without the registration check
TransitionOutcomeInitialUnchecked(alloc, tr, st, toState) ==
    IF ~alloc
    THEN [err |-> newErrorStruct(ErrorMachineNotInitialized), state |-> st]
    ELSE IF st = Sentinel
    THEN [err |-> NilError, state |-> toState]
    ELSE IF toState \notin Lookup(tr, st)
    THEN [err |-> newErrorStruct(ErrorTransitionNotPermitted), state |-> st]
    ELSE IF ~Registered(tr, toState)
    THEN [err |-> newErrorStruct(ErrorStateUndefined), state |-> st]
    ELSE [err |-> NilError, state |-> toState]

\* mutant: m.state is assigned before the destination-registration check
TransitionOutcomeEarlyAssign(alloc, tr, st, toState) ==
    IF ~alloc
    THEN [err |-> newErrorStruct(ErrorMachineNotInitialized), state |-> st]
    ELSE IF st = Sentinel
    THEN IF ~Registered(tr, toState)
         THEN [err |-> newErrorStruct(ErrorStateUndefined), state |-> st]
         ELSE [err |-> NilError, state |-> toState]
    ELSE IF toState \notin Lookup(tr, st)
    THEN [err |-> newErrorStruct(ErrorTransitionNotPermitted), state |-> st]
    ELSE IF ~Registered(tr, toState)
    THEN [err |-> newErrorStruct(ErrorStateUndefined), state |-> toState]
    ELSE [err |-> NilError, state |-> toState]

\* what StateTransition(toState) returns and the value m.state has afterwards
TransitionOutcome(alloc, tr, st, toState) ==
    IF ~alloc
    THEN [err |-> newErrorStruct(ErrorMachineNotInitialized), state |-> st]
    ELSE IF st = Sentinel
    THEN IF ~Registered(tr, toState)
         THEN [err |-> newErrorStruct(ErrorStateUndefined), state |-> st]
         ELSE [err |-> NilError, state |-> toState]
    ELSE IF toState \notin Lookup(tr, st)
    THEN [err |-> newErrorStruct(ErrorTransitionNotPermitted), state |-> st]
    ELSE IF ~Registered(tr, toState)
    THEN [err |-> newErrorStruct(ErrorStateUndefined), state |-> st]
    ELSE [err |-> NilError, state |-> toState]

\* ------------------------------------------------------------- goroutines

\* the goroutines that call the machine at the same time
Goroutines == {"g1", "g2", "g3"}

\* no goroutine
NoGoroutine == "none"

\* a goroutine that has not called yet; a call that has not returned yet
NoCall == [op |-> "none", arg |-> Sentinel, dests |-> <<>>]
NoResult == [err |-> NilError, rules |-> {}, state |-> Sentinel]

\* the zero value of sync.RWMutex
Unheld == [writer |-> NoGoroutine, readers |-> {}]

\* AddStateTransitionRules and StateTransition take m.mu.Lock();
\* CurrentState and StateTransitionRules take m.mu.RLock()
IsWriter(op) == op \in {"AddStateTransitionRules", "StateTransition"}

\* mutant: Lock() does not wait for the readers to leave
CanLockIgnoringReaders(m, writer) == m.writer = NoGoroutine

\* mutant: the methods do not take m.mu at all
CanLockAlways(m, writer) == TRUE

\* Lock() returns once no goroutine holds the mutex in either mode; RLock()
\* returns once no goroutine holds it for writing
CanLock(m, writer) ==
    IF writer THEN m.writer = NoGoroutine /\ m.readers = {}
    ELSE m.writer = NoGoroutine

\* the mutex once g's Lock() (writer) or RLock() has returned
Locked(m, g, writer) ==
    IF writer THEN [m EXCEPT !.writer = g]
    ELSE [m EXCEPT !.readers = @ \cup {g}]

\* the mutex once g has called Unlock() (writer) or RUnlock()
Unlocked(m, g, writer) ==
    IF writer THEN [m EXCEPT !.writer = IF @ = g THEN NoGoroutine ELSE @]
    ELSE [m EXCEPT !.readers = @ \ {g}]

\* mutant: the unlock is skipped on the paths that return an error
AfterReturnKeptOnError(m, g, writer, err) ==
    IF err.nil THEN Unlocked(m, g, writer) ELSE m

\* "defer m.mu.Unlock()" / "defer m.mu.RUnlock()": the mutex once g's method
\* has returned err; the deferred call runs on every return path
AfterReturn(m, g, writer, err) == Unlocked(m, g, writer)

\* ------------------------------------------------------------------ state

VARIABLES
    transitions,   \* m.transitions: registered state -> its rule set
    allocated,     \* m.transitions != nil
    state,         \* m.state
    pre,           \* the machine as it was when the latest call began
    ret,           \* the latest call: method, arguments, returned values
    added,         \* AddStateTransitionRules has been called
    succeeded,     \* some StateTransition call has returned nil
    lastTarget,    \* toState of the latest StateTransition that returned nil
    sources,       \* every sourceState AddStateTransitionRules was called with
    listed,        \* every state passed in some destinationStates list
    log,           \* Scenario A caller's record of its StateTransition calls
    held,          \* the TransitionRuleSet a caller got from its latest query
    mu,            \* m.mu: the goroutine holding Lock, the goroutines holding RLock
    pc,            \* where each goroutine is in its method call
    call,          \* the method and arguments of each goroutine's call
    local,         \* what each goroutine's call has decided so far
    result,        \* what each goroutine's call returned
    start,         \* the machine the goroutines were started on
    callback,      \* the registered handler, if any, and its dispatch mode
    dispatched,    \* the notifications dispatched so far, in dispatch order
    pending,       \* the asynchronous notifications whose handler call has not run
    invoked        \* the handler's invocations so far, in the order they ran

\* the variables only the copy specification changes
copyVars == <<held>>

\* the variables only the goroutine specifications change
lockVars == <<mu, pc, call, local, result, start>>

\* the caller's records the sequential specifications keep
callVars == <<pre, ret, added, succeeded, lastTarget, sources, listed>>

\* the variables only the callback specifications change
callbackVars == <<callback, dispatched, pending, invoked>>

vars == <<transitions, allocated, state, pre, ret, added, succeeded,
          lastTarget, sources, listed, log, copyVars, lockVars, callbackVars>>

\* the machine's fields and the caller's knowledge as a call begins
Snapshot ==
    [state |-> state, transitions |-> transitions, allocated |-> allocated,
     added |-> added, succeeded |-> succeeded, sources |-> sources,
     listed |-> listed]

\* the record of one call
Call(op, arg, dests, err, rules, st) ==
    [op |-> op, arg |-> arg, dests |-> dests, err |-> err, rules |-> rules,
     state |-> st]

\* no handler registered
NoCallback == [set |-> FALSE, sync |-> FALSE]

\* a caller that holds no returned set
NoSet == [has |-> FALSE, key |-> Sentinel, rules |-> {}, shared |-> FALSE]

\* the values the fields of Machine and the caller's records take
TypeOK ==
    /\ DOMAIN transitions \subseteq AllStates
    /\ \A k \in DOMAIN transitions : transitions[k] \subseteq AllStates
    /\ allocated \in BOOLEAN
    /\ added \in BOOLEAN
    /\ ~allocated => transitions = EmptyMap
    /\ state \in AllStates
    /\ pre.state \in AllStates
    /\ ret.op \in {"none", "CurrentState", "StateTransitionRules",
                   "AddStateTransitionRules", "StateTransition",
                   "MutateReturned", "SetStateTransitionCallback",
                   "StateTransitionCallback"}
    /\ callback.set \in BOOLEAN /\ callback.sync \in BOOLEAN
    /\ pending \subseteq 1..Len(dispatched)
    /\ Len(invoked) <= Len(dispatched)
    /\ held.has \in BOOLEAN /\ held.shared = FALSE
    /\ ret.err.nil \in BOOLEAN
    /\ ret.err.code \in {ErrorUnknown, ErrorMachineNotInitialized,
                         ErrorTransitionNotPermitted, ErrorStateUndefined}
    /\ succeeded \in BOOLEAN
    /\ lastTarget \in AllStates
    /\ sources \subseteq AllStates
    /\ listed \subseteq AllStates
    /\ Len(log) <= MaxLog

\* &Machine{}: nil registry, zero-value state, nothing called yet
Init ==
    /\ transitions = EmptyMap
    /\ allocated = FALSE
    /\ state = Sentinel
    /\ pre = [state |-> Sentinel, transitions |-> EmptyMap,
              allocated |-> FALSE, added |-> FALSE, succeeded |-> FALSE,
              sources |-> {}, listed |-> {}]
    /\ ret = Call("none", Sentinel, <<>>, NilError, {}, Sentinel)
    /\ added = FALSE
    /\ succeeded = FALSE
    /\ lastTarget = Sentinel
    /\ sources = {}
    /\ listed = {}
    /\ log = <<>>
    /\ held = NoSet
    /\ mu = Unheld
    /\ pc = [g \in Goroutines |-> "idle"]
    /\ call = [g \in Goroutines |-> NoCall]
    /\ local = [g \in Goroutines |-> NoResult]
    /\ result = [g \in Goroutines |-> NoResult]
    /\ callback = NoCallback
    /\ dispatched = <<>>
    /\ pending = {}
    /\ invoked = <<>>
    /\ start = [transitions |-> EmptyMap, allocated |-> FALSE, state |-> Sentinel]

\* ---------------------------------------------------------------- methods

CurrentState ==
    /\ pre' = Snapshot
    /\ ret' = Call("CurrentState", Sentinel, <<>>, NilError, {}, state)
    /\ UNCHANGED <<transitions, allocated, state, added, succeeded, lastTarget,
                   sources, listed>>

StateTransitionRules(s) ==
    LET out == RulesOutcome(allocated, transitions, s) IN
    /\ pre' = Snapshot
    /\ ret' = Call("StateTransitionRules", s, <<>>, out.err, out.rules, Sentinel)
    /\ UNCHANGED <<transitions, allocated, state, added, succeeded, lastTarget,
                   sources, listed>>

AddStateTransitionRules(sourceState, destinationStates) ==
    /\ pre' = Snapshot
    /\ allocated' = TRUE
    /\ transitions' = AddRules(transitions, sourceState, destinationStates)
    /\ ret' = Call("AddStateTransitionRules", sourceState, destinationStates,
                   NilError, {}, Sentinel)
    /\ added' = TRUE
    /\ sources' = sources \cup {sourceState}
    /\ listed' = listed \cup { destinationStates[i] : i \in 1..Len(destinationStates) }
    /\ UNCHANGED <<state, succeeded, lastTarget>>

StateTransition(toState) ==
    LET out == TransitionOutcome(allocated, transitions, state, toState) IN
    /\ pre' = Snapshot
    /\ state' = out.state
    /\ ret' = Call("StateTransition", toState, <<>>, out.err, {}, Sentinel)
    /\ succeeded' = (succeeded \/ out.err.nil)
    /\ lastTarget' = IF out.err.nil THEN toState ELSE lastTarget
    /\ UNCHANGED <<transitions, allocated, added, sources, listed>>

\* ---------------------------------------------------------- specifications

\* any caller, any arguments over States
Next ==
    \/ CurrentState /\ UNCHANGED <<log, copyVars, lockVars, callbackVars>>
    \/ \E s \in States : StateTransitionRules(s) /\ UNCHANGED <<log, copyVars, lockVars, callbackVars>>
    \/ \E s \in States, d \in SeqsUpTo(States, MaxDests) :
          AddStateTransitionRules(s, d) /\ UNCHANGED <<log, copyVars, lockVars, callbackVars>>
    \/ \E t \in States : StateTransition(t) /\ UNCHANGED <<log, copyVars, lockVars, callbackVars>>

Spec == Init /\ [][Next]_vars

\* the test suite's machine: setUpMachine's registrations in order, then
\* StateTransition calls among the suite's states, each recorded with its result
NextScenario ==
    \/ \E i \in 1..Len(SetUpCalls) :
          /\ DOMAIN transitions = SetUpDone(i - 1)
          /\ AddStateTransitionRules(SetUpCalls[i].src, SetUpCalls[i].dests)
          /\ UNCHANGED <<log, copyVars, lockVars, callbackVars>>
    \/ \E t \in ScenarioStates :
          /\ DOMAIN transitions = SetUpDone(Len(SetUpCalls))
          /\ Len(log) < MaxLog
          /\ StateTransition(t)
          /\ log' = Append(log, [arg |-> t, err |-> ret'.err])
          /\ UNCHANGED <<copyVars, lockVars, callbackVars>>

SpecScenario == Init /\ [][NextScenario]_vars

\* StateTransitionRules(s) by a caller that keeps the returned set
QueryAndHold(s) ==
    /\ StateTransitionRules(s)
    /\ held' = IF ret'.err.nil
               THEN [has |-> TRUE, key |-> s,
                     rules |-> ReturnedSet(transitions, s).rules,
                     shared |-> ReturnedSet(transitions, s).shared]
               ELSE held
    /\ UNCHANGED <<log, lockVars, callbackVars>>

\* the caller writes to the set it holds: trs[x] = struct{}{} or delete(trs, x).
\* A Go map is a reference: were the held set the registry's own map, the write
\* would land in the registry.
MutateHeld(x, insert) ==
    LET change(set) == IF insert THEN set \cup {x} ELSE set \ {x} IN
    /\ held.has
    /\ pre' = Snapshot
    /\ held' = [held EXCEPT !.rules = change(@)]
    /\ transitions' = IF held.shared
                      THEN [transitions EXCEPT ![held.key] = change(@)]
                      ELSE transitions
    /\ ret' = Call("MutateReturned", x, <<>>, NilError, {}, Sentinel)
    /\ UNCHANGED <<allocated, state, added, succeeded, lastTarget, sources,
                   listed, log, lockVars, callbackVars>>

\* callers that register, query, keep and modify what a query returned, and
\* transition
NextCopy ==
    \/ \E s \in CopyStates, d \in SeqsUpTo(CopyStates, MaxDests) :
          AddStateTransitionRules(s, d) /\ UNCHANGED <<log, copyVars, lockVars, callbackVars>>
    \/ \E s \in CopyStates : QueryAndHold(s)
    \/ \E x \in CopyStates, insert \in BOOLEAN : MutateHeld(x, insert)
    \/ \E t \in CopyStates : StateTransition(t) /\ UNCHANGED <<log, copyVars, lockVars, callbackVars>>

SpecCopy == Init /\ [][NextCopy]_vars

\* ------------------------------------------- methods, step by step

\* the destination lists the goroutines pass
ConcDests == {<<>>, <<"b">>, <<"c">>, <<"b", "c">>}

\* the destination lists the goroutines pass under SpecConcFair
FairDests == {<<>>, <<"b">>}

\* the registries the goroutines are started on: a fork a -> {b, c} with b and
\* c terminal, and a chain a -> b -> c
ForkRegistry == [k \in ConcStates |-> IF k = "a" THEN {"b", "c"} ELSE {}]
ChainRegistry ==
    [k \in ConcStates |-> IF k = "a" THEN {"b"} ELSE IF k = "b" THEN {"c"} ELSE {}]

\* the machines the goroutines are started on: a new machine, and registered
\* machines before and after their initial transition
StartMachines ==
    { [transitions |-> EmptyMap, allocated |-> FALSE, state |-> Sentinel],
      [transitions |-> ForkRegistry, allocated |-> TRUE, state |-> Sentinel],
      [transitions |-> ForkRegistry, allocated |-> TRUE, state |-> "a"],
      [transitions |-> ChainRegistry, allocated |-> TRUE, state |-> "a"] }

\* a machine some caller has brought to one of StartMachines, no call running
InitConc ==
    /\ start \in StartMachines
    /\ transitions = start.transitions
    /\ allocated = start.allocated
    /\ state = start.state
    /\ pre = [state |-> start.state, transitions |-> start.transitions,
              allocated |-> start.allocated, added |-> start.allocated,
              succeeded |-> start.state # Sentinel,
              sources |-> DOMAIN start.transitions,
              listed |-> UNION { start.transitions[k] : k \in DOMAIN start.transitions }]
    /\ ret = Call("none", Sentinel, <<>>, NilError, {}, Sentinel)
    /\ added = start.allocated
    /\ succeeded = (start.state # Sentinel)
    /\ lastTarget = start.state
    /\ sources = DOMAIN start.transitions
    /\ listed = UNION { start.transitions[k] : k \in DOMAIN start.transitions }
    /\ log = <<>>
    /\ held = NoSet
    /\ mu = Unheld
    /\ pc = [g \in Goroutines |-> "idle"]
    /\ call = [g \in Goroutines |-> NoCall]
    /\ local = [g \in Goroutines |-> NoResult]
    /\ result = [g \in Goroutines |-> NoResult]
    /\ callback = NoCallback
    /\ dispatched = <<>>
    /\ pending = {}
    /\ invoked = <<>>

\* goroutine g calls a method: it is now at the method's Lock() or RLock()
Begin(g, op, arg, dests) ==
    /\ pc[g] = "idle"
    /\ call' = [call EXCEPT ![g] = [op |-> op, arg |-> arg, dests |-> dests]]
    /\ pc' = [pc EXCEPT ![g] = "wait"]
    /\ UNCHANGED <<transitions, allocated, state, mu, local, result, start>>

\* g's Lock() or RLock() returns: g is inside the method's critical section
Acquire(g) ==
    /\ pc[g] = "wait"
    /\ CanLock(mu, IsWriter(call[g].op))
    /\ mu' = Locked(mu, g, IsWriter(call[g].op))
    /\ pc' = [pc EXCEPT ![g] = "check"]
    /\ UNCHANGED <<transitions, allocated, state, call, local, result, start>>

\* the first half of the method body: the nil check and the lookups of
\* CurrentState, StateTransitionRules and StateTransition, and the two
\* allocations of AddStateTransitionRules
Check(g) ==
    /\ pc[g] = "check"
    /\ pc' = [pc EXCEPT ![g] = "apply"]
    /\ CASE call[g].op = "CurrentState" ->
              /\ local' = [local EXCEPT ![g] =
                              [err |-> NilError, rules |-> {}, state |-> state]]
              /\ UNCHANGED <<transitions, allocated>>
         [] call[g].op = "StateTransitionRules" ->
              /\ local' = [local EXCEPT ![g] =
                    [err |-> RulesOutcome(allocated, transitions, call[g].arg).err,
                     rules |-> RulesOutcome(allocated, transitions, call[g].arg).rules,
                     state |-> Sentinel]]
              /\ UNCHANGED <<transitions, allocated>>
         [] call[g].op = "StateTransition" ->
              /\ local' = [local EXCEPT ![g] =
                    [err |-> TransitionOutcome(allocated, transitions, state,
                                               call[g].arg).err,
                     rules |-> {}, state |-> Sentinel]]
              /\ UNCHANGED <<transitions, allocated>>
         [] call[g].op = "AddStateTransitionRules" ->
              /\ allocated' = TRUE
              /\ transitions' = AddRules(transitions, call[g].arg, <<>>)
              /\ local' = [local EXCEPT ![g] = NoResult]
    /\ UNCHANGED <<state, mu, call, result, start>>

\* the second half of the method body and its return: StateTransition assigns
\* m.state if its checks passed, AddStateTransitionRules inserts the
\* destinations; the deferred unlock runs and the caller has the result
Apply(g) ==
    /\ pc[g] = "apply"
    /\ pc' = [pc EXCEPT ![g] = "done"]
    /\ state' = IF call[g].op = "StateTransition" /\ local[g].err.nil
                THEN call[g].arg ELSE state
    /\ transitions' = IF call[g].op = "AddStateTransitionRules"
                      THEN AddRules(transitions, call[g].arg, call[g].dests)
                      ELSE transitions
    /\ result' = [result EXCEPT ![g] = local[g]]
    /\ mu' = AfterReturn(mu, g, IsWriter(call[g].op), local[g].err)
    /\ UNCHANGED <<allocated, call, local, start>>

\* one step of goroutine g inside a call it has made
Proceed(g) == Acquire(g) \/ Check(g) \/ Apply(g)

\* goroutine g calls any method with arguments over S and D
BeginAny(g, S, D) ==
    \/ Begin(g, "CurrentState", Sentinel, <<>>)
    \/ \E s \in S : Begin(g, "StateTransitionRules", s, <<>>)
    \/ \E t \in S : Begin(g, "StateTransition", t, <<>>)
    \/ \E s \in S, d \in D : Begin(g, "AddStateTransitionRules", s, d)

\* every goroutine makes at most one call, at any time, with any arguments
NextConc ==
    \/ \E g \in Goroutines :
          BeginAny(g, ConcStates, ConcDests) /\ UNCHANGED <<callVars, log, copyVars, callbackVars>>
    \/ \E g \in Goroutines : Acquire(g) /\ UNCHANGED <<callVars, log, copyVars, callbackVars>>
    \/ \E g \in Goroutines : Check(g) /\ UNCHANGED <<callVars, log, copyVars, callbackVars>>
    \/ \E g \in Goroutines : Apply(g) /\ UNCHANGED <<callVars, log, copyVars, callbackVars>>

SpecConc == InitConc /\ [][NextConc]_vars

\* as NextConc, with arguments over FairStates and FairDests
NextConcFair ==
    \/ \E g \in Goroutines :
          BeginAny(g, FairStates, FairDests) /\ UNCHANGED <<callVars, log, copyVars, callbackVars>>
    \/ \E g \in Goroutines : Acquire(g) /\ UNCHANGED <<callVars, log, copyVars, callbackVars>>
    \/ \E g \in Goroutines : Check(g) /\ UNCHANGED <<callVars, log, copyVars, callbackVars>>
    \/ \E g \in Goroutines : Apply(g) /\ UNCHANGED <<callVars, log, copyVars, callbackVars>>

\* the Go scheduler runs every goroutine that can run: a call that has begun
\* keeps taking its steps
SpecConcFair ==
    /\ InitConc
    /\ [][NextConcFair]_vars
    /\ \A g \in Goroutines :
          WF_vars(Proceed(g) /\ UNCHANGED <<callVars, log, copyVars, callbackVars>>)

\* ---------------------------------------------------------------- callbacks

\* the registrations made before the machine is driven: a <-> b, and c listed
\* as a destination of a without being registered
CallbackSetUp ==
    << [src |-> "a", dests |-> <<"b", "c">>],
       [src |-> "b", dests |-> <<"a">>] >>

\* set_callback(handler, synchronous): replaces the handler and the mode
SetStateTransitionCallback(sync) ==
    /\ pre' = Snapshot
    /\ callback' = [set |-> TRUE, sync |-> sync]
    /\ ret' = Call("SetStateTransitionCallback", Sentinel, <<>>, NilError, {},
                   Sentinel)
    /\ UNCHANGED <<transitions, allocated, state, added, succeeded, lastTarget,
                   sources, listed, dispatched, pending, invoked>>

\* mutant: the initial transition notifies the handler as well
DispatchOnInitialToo(cb, from, err) ==
    IF err.nil /\ cb.set
    THEN (IF cb.sync THEN "sync" ELSE "async")
    ELSE "none"

\* mutant: the handler is always scheduled, never called in line
DispatchAlwaysAsync(cb, from, err) ==
    IF err.nil /\ from # Sentinel /\ cb.set THEN "async" ELSE "none"

\* what a transition from state `from` that returns err does about the
\* handler: nothing on the initial path and on every failure; on a successful
\* subsequent transition with a handler registered, a call in line
\* (synchronous mode) or a scheduled call (asynchronous mode)
Dispatch(cb, from, err) ==
    IF err.nil /\ from # Sentinel /\ cb.set
    THEN (IF cb.sync THEN "sync" ELSE "async")
    ELSE "none"

\* StateTransition(toState) followed, inside the same call, by the dispatch
TransitionAndDispatch(toState) ==
    /\ Len(dispatched) < MaxDispatch
    /\ StateTransition(toState)
    /\ LET how == Dispatch(callback, state, ret'.err)
           n == Len(dispatched) + 1
       IN CASE how = "none" ->
                  UNCHANGED <<dispatched, pending, invoked>>
            [] how = "sync" ->
                  /\ dispatched' = Append(dispatched, [to |-> toState, sync |-> TRUE])
                  /\ invoked' = Append(invoked, [n |-> n, s |-> toState])
                  /\ UNCHANGED pending
            [] how = "async" ->
                  /\ dispatched' = Append(dispatched, [to |-> toState, sync |-> FALSE])
                  /\ pending' = pending \cup {n}
                  /\ UNCHANGED invoked
    /\ UNCHANGED callback

\* a scheduled handler call runs; each was scheduled on its own, so any
\* pending one may run next
Deliver(n) ==
    /\ n \in pending
    /\ pre' = Snapshot
    /\ invoked' = Append(invoked, [n |-> n, s |-> dispatched[n].to])
    /\ pending' = pending \ {n}
    /\ ret' = Call("StateTransitionCallback", dispatched[n].to, <<>>, NilError,
                   {}, Sentinel)
    /\ UNCHANGED <<transitions, allocated, state, added, succeeded, lastTarget,
                   sources, listed, callback, dispatched>>

\* a caller registers CallbackSetUp in order, sets handlers and drives the
\* machine; scheduled handler calls run when the scheduler picks them
NextCallback ==
    \/ \E i \in 1..Len(CallbackSetUp) :
          /\ DOMAIN transitions = { CallbackSetUp[j].src : j \in 1..(i - 1) }
          /\ AddStateTransitionRules(CallbackSetUp[i].src, CallbackSetUp[i].dests)
          /\ UNCHANGED <<log, copyVars, lockVars, callbackVars>>
    \/ \E sync \in BOOLEAN :
          SetStateTransitionCallback(sync) /\ UNCHANGED <<log, copyVars, lockVars>>
    \/ \E t \in CallbackStates :
          TransitionAndDispatch(t) /\ UNCHANGED <<log, copyVars, lockVars>>
    \/ \E n \in pending : Deliver(n) /\ UNCHANGED <<log, copyVars, lockVars>>

SpecCallback == Init /\ [][NextCallback]_vars

\* the scheduler runs every scheduled handler call
SpecCallbackFair ==
    /\ SpecCallback
    /\ \A n \in 1..(MaxDispatch + 1) :
          WF_vars(Deliver(n) /\ UNCHANGED <<log, copyVars, lockVars>>)

\* ------------------------------------------------------------- properties

\* the elements of a sequence
Range(q) == { q[i] : i \in 1..Len(q) }

\* the latest call was StateTransition
IsTransition == ret.op = "StateTransition"

\* the latest call returned an error with this code
Failed(code) == ret.err = newErrorStruct(code)

\* C1: whenever the current state is not "", it is a key of the registry.
C1_StateIsRegistered ==
    state # Sentinel => state \in DOMAIN transitions

\* C1 witness: a subsequent transition has moved the machine to a new state
C1_Witness ==
    /\ IsTransition /\ ret.err.nil
    /\ pre.state # Sentinel /\ state # Sentinel /\ state # pre.state

\* C2: from a current state S # "", StateTransition(T) returns
\* TransitionNotPermitted when T is not in rules(S), registered or not;
\* StateUndefined when T is in rules(S) but is no registry key; and otherwise
\* returns nil with T the current state.
C2_SubsequentTransition ==
    (IsTransition /\ pre.state # Sentinel) =>
        LET permitted == ret.arg \in Lookup(pre.transitions, pre.state)
            defined == ret.arg \in DOMAIN pre.transitions
        IN /\ ~permitted => Failed(ErrorTransitionNotPermitted)
           /\ (permitted /\ ~defined) => Failed(ErrorStateUndefined)
           /\ (permitted /\ defined) => (ret.err.nil /\ state = ret.arg)

\* C2 witness: a target that is neither permitted nor registered was refused
\* as not permitted
C2_Witness ==
    /\ IsTransition /\ pre.state # Sentinel
    /\ ret.arg \notin Lookup(pre.transitions, pre.state)
    /\ ret.arg \notin DOMAIN pre.transitions
    /\ Failed(ErrorTransitionNotPermitted)

C4_Uninitialized ==
    (ret.op \in {"StateTransition", "StateTransitionRules"} /\ ~pre.added) =>
        Failed(ErrorMachineNotInitialized)

\* C4 witness: a rule query on a machine nothing was registered on
C4_Witness ==
    /\ ret.op = "StateTransitionRules" /\ ~pre.added /\ ret.arg # Sentinel
    /\ Failed(ErrorMachineNotInitialized)

\* C5: a StateTransition or StateTransitionRules call that returns an error
\* leaves the current state and the registry as they were.
C5_ErrorsChangeNothing ==
    (ret.op \in {"StateTransition", "StateTransitionRules"} /\ ~ret.err.nil) =>
        /\ state = pre.state
        /\ transitions = pre.transitions
        /\ allocated = pre.allocated

\* C5 witness: a permitted transition to an unregistered state was refused
C5_Witness ==
    /\ IsTransition /\ pre.state # Sentinel
    /\ ret.arg \in Lookup(pre.transitions, pre.state)
    /\ Failed(ErrorStateUndefined)

\* the arguments of the four StateTransition calls of Scenario A
ScenarioACalls == <<"start", "finished", "started", "never_exist">>

\* the first n recorded calls are the first n calls of Scenario A
ScenarioAPrefix(n) ==
    /\ Len(log) >= n
    /\ \A i \in 1..n : log[i].arg = ScenarioACalls[i]

\* C6 as stated: on the machine setUpMachine registers, StateTransition("start")
\* succeeds, then "finished" fails with TransitionNotPermitted, then "started"
\* succeeds, then "never_exist" fails with StateUndefined.
C6_ScenarioA_AsStated ==
    /\ ScenarioAPrefix(1) => log[1].err = NilError
    /\ ScenarioAPrefix(2) => log[2].err = newErrorStruct(ErrorTransitionNotPermitted)
    /\ ScenarioAPrefix(3) => log[3].err = NilError
    /\ ScenarioAPrefix(4) => log[4].err = newErrorStruct(ErrorStateUndefined)

\* C6 amended: the same sequence, where the last call, made from "started",
\* fails with TransitionNotPermitted; "never_exist" fails with StateUndefined
\* when it is requested from "start", where it is a listed destination.
C6_ScenarioA_Amended ==
    /\ ScenarioAPrefix(1) => log[1].err = NilError
    /\ ScenarioAPrefix(2) => log[2].err = newErrorStruct(ErrorTransitionNotPermitted)
    /\ ScenarioAPrefix(3) => log[3].err = NilError
    /\ ScenarioAPrefix(4) => log[4].err = newErrorStruct(ErrorTransitionNotPermitted)
    /\ (ScenarioAPrefix(2) /\ Len(log) >= 3 /\ log[3].arg = "never_exist") =>
          log[3].err = newErrorStruct(ErrorStateUndefined)

\* C6 witness: the four calls of Scenario A have been made on the registered
\* machine, which is left in "started"
C6_Witness ==
    /\ ScenarioAPrefix(4)
    /\ transitions = ScenarioRegistry
    /\ state = "started"

\* C7: a successful StateTransition that is not the first successful one has a
\* target in the rule set of the state the machine was in before the call.
C7_LaterTransitionsPermitted ==
    (IsTransition /\ ret.err.nil /\ pre.succeeded) =>
        ret.arg \in Lookup(pre.transitions, pre.state)

\* C7 restricted to calls made from a state other than "": holds of the code
C7_FromNonSentinelPermitted ==
    (IsTransition /\ ret.err.nil /\ pre.state # Sentinel) =>
        ret.arg \in Lookup(pre.transitions, pre.state)

\* C8: CurrentState returns "" exactly when no StateTransition has succeeded,
\* and otherwise the target of the latest successful StateTransition.
C8_CurrentStateSentinelIffUnset ==
    ret.op = "CurrentState" =>
        /\ (ret.state = Sentinel) <=> ~pre.succeeded
        /\ pre.succeeded => ret.state = lastTarget

\* C8 without the "exactly when": CurrentState returns "" before any
\* success and the latest successful target after one; holds of the code
C8_CurrentStateIsLastTarget ==
    ret.op = "CurrentState" =>
        ret.state = (IF pre.succeeded THEN lastTarget ELSE Sentinel)

\* C9: while the current state is a registered state with an empty rule set,
\* every StateTransition fails with TransitionNotPermitted and the state stays.
C9_TerminalStateNeverLeft ==
    (/\ IsTransition
     /\ pre.state \in DOMAIN pre.transitions
     /\ pre.transitions[pre.state] = {}) =>
        (Failed(ErrorTransitionNotPermitted) /\ state = pre.state)

\* C9 restricted to a terminal state other than "": holds of the code
C9_NonSentinelTerminalNeverLeft ==
    (/\ IsTransition
     /\ pre.state # Sentinel
     /\ pre.state \in DOMAIN pre.transitions
     /\ pre.transitions[pre.state] = {}) =>
        (Failed(ErrorTransitionNotPermitted) /\ state = pre.state)

\* C10: AddStateTransitionRules(source, D) returns nil and leaves source with
\* exactly its previous rule set (empty if it was unregistered) united with D;
\* a registration that repeats known rules leaves the registry as it was.
C10_RegistrationAdditive ==
    ret.op = "AddStateTransitionRules" =>
        /\ ret.err.nil
        /\ ret.arg \in DOMAIN transitions
        /\ transitions[ret.arg] =
              Lookup(pre.transitions, ret.arg) \cup Range(ret.dests)
        /\ (/\ ret.arg \in DOMAIN pre.transitions
            /\ Range(ret.dests) \subseteq pre.transitions[ret.arg]) =>
              transitions = pre.transitions

\* C10 witness: {x, y} was registered and <<y, z>> added, giving three rules
C10_Witness ==
    /\ ret.op = "AddStateTransitionRules"
    /\ ret.arg \in DOMAIN pre.transitions
    /\ Cardinality(pre.transitions[ret.arg]) = 2
    /\ Cardinality(Range(ret.dests)) = 2
    /\ Range(ret.dests) \cap pre.transitions[ret.arg] # {}
    /\ Cardinality(transitions[ret.arg]) = 3

\* the latest call was StateTransitionRules
IsRulesQuery == ret.op = "StateTransitionRules"

\* C11: with the registry allocated, StateTransitionRules(s) returns the rule
\* set of s and a nil error exactly when s was the source of some earlier
\* AddStateTransitionRules call (an empty set when it was registered with no
\* destinations); for any other s, a listed destination included, it returns
\* StateUndefined.
C11_QueryDefinedIffSource ==
    (IsRulesQuery /\ pre.allocated) =>
        /\ ret.err.nil <=> (ret.arg \in pre.sources)
        /\ ret.err.nil => ret.rules = pre.transitions[ret.arg]
        /\ (ret.arg \notin pre.sources) => Failed(ErrorStateUndefined)

\* C11 witness: a state that is a listed destination but was never a source
\* was queried and refused, on a machine that holds a source with no rules
C11_Witness ==
    /\ IsRulesQuery /\ pre.allocated
    /\ ret.arg \in pre.listed /\ ret.arg \notin pre.sources
    /\ Failed(ErrorStateUndefined)
    /\ \E k \in pre.sources : pre.transitions[k] = {}

\* C11 second case: a source registered with no destinations was queried and
\* an empty set came back with a nil error
C11_EmptySetReturned ==
    /\ IsRulesQuery /\ ret.err.nil /\ ret.rules = {}
    /\ ret.arg \in pre.sources

\* C18: registration only grows: in every step every registry key stays a
\* key, every rule of every source stays in that source's rule set, and once
\* the registry is allocated it stays allocated and the call just made did not
\* return MachineNotInitialized.
C18_RegistrationMonotonic ==
    [][ /\ DOMAIN transitions \subseteq DOMAIN transitions'
        /\ \A k \in DOMAIN transitions : transitions[k] \subseteq transitions'[k]
        /\ allocated =>
              /\ allocated'
              /\ ret'.err # newErrorStruct(ErrorMachineNotInitialized) ]_vars

\* C18 witness: a source that already had a rule was registered again with a
\* different destination list and kept its earlier rule
C18_Witness ==
    /\ ret.op = "AddStateTransitionRules"
    /\ ret.arg \in DOMAIN pre.transitions
    /\ pre.transitions[ret.arg] # {}
    /\ ~(pre.transitions[ret.arg] \subseteq Range(ret.dests))
    /\ Range(ret.dests) # {}
    /\ pre.transitions[ret.arg] \subseteq transitions[ret.arg]

\* C19: AddStateTransitionRules(source, D) leaves the current state and every
\* other source's rule set as they were and adds no key but source; a
\* StateTransition that returns nil changes nothing but the current state;
\* CurrentState and StateTransitionRules change nothing.
C19_FrameEffects ==
    /\ ret.op = "AddStateTransitionRules" =>
          /\ state = pre.state
          /\ DOMAIN transitions = DOMAIN pre.transitions \cup {ret.arg}
          /\ \A k \in DOMAIN pre.transitions \ {ret.arg} :
                transitions[k] = pre.transitions[k]
    /\ (IsTransition /\ ret.err.nil) =>
          /\ transitions = pre.transitions
          /\ allocated = pre.allocated
    /\ ret.op \in {"CurrentState", "StateTransitionRules"} =>
          /\ state = pre.state
          /\ transitions = pre.transitions
          /\ allocated = pre.allocated

\* C19 witness: a registration listed a destination that is no key, on a
\* machine that has a current state and another source with rules
C19_Witness ==
    /\ ret.op = "AddStateTransitionRules"
    /\ \E d \in Range(ret.dests) : d \notin DOMAIN transitions
    /\ \E k \in DOMAIN pre.transitions \ {ret.arg} : pre.transitions[k] # {}
    /\ pre.state # Sentinel

InCS(g) == pc[g] \in {"check", "apply"}

\* no call is running
Quiescent == \A g \in Goroutines : pc[g] \in {"idle", "done"}

\* the goroutines whose call has returned
Returned == { g \in Goroutines : pc[g] = "done" }

\* call c made alone on machine m: the machine afterwards and what c returns
SeqCall(m, c) ==
    CASE c.op = "CurrentState" ->
            [m |-> m, r |-> [err |-> NilError, rules |-> {}, state |-> m.state]]
      [] c.op = "StateTransitionRules" ->
            [m |-> m,
             r |-> [err |-> RulesOutcome(m.allocated, m.transitions, c.arg).err,
                    rules |-> RulesOutcome(m.allocated, m.transitions, c.arg).rules,
                    state |-> Sentinel]]
      [] c.op = "StateTransition" ->
            [m |-> [m EXCEPT !.state =
                       TransitionOutcome(m.allocated, m.transitions, m.state,
                                         c.arg).state],
             r |-> [err |-> TransitionOutcome(m.allocated, m.transitions, m.state,
                                              c.arg).err,
                    rules |-> {}, state |-> Sentinel]]
      [] c.op = "AddStateTransitionRules" ->
            [m |-> [m EXCEPT !.allocated = TRUE,
                             !.transitions = AddRules(@, c.arg, c.dests)],
             r |-> NoResult]

\* the returned calls, made one after another in this order on machine m,
\* return what the goroutines got and leave the machine as it is now
RECURSIVE Explains(_, _)
Explains(m, order) ==
    IF order = <<>>
    THEN /\ m.transitions = transitions
         /\ m.allocated = allocated
         /\ m.state = state
    ELSE /\ SeqCall(m, call[Head(order)]).r = result[Head(order)]
         /\ Explains(SeqCall(m, call[Head(order)]).m, Tail(order))

\* the orders in which the returned calls can be put
Orders ==
    { o \in [1..Cardinality(Returned) -> Returned] :
         \A i, j \in 1..Cardinality(Returned) : o[i] = o[j] => i = j }

\* g and h raced to move the machine from its state S to two different
\* permitted, registered states neither of which permits the other, while no
\* third goroutine wrote to the machine
ForkRace(g, h) ==
    /\ g # h /\ pc[g] = "done" /\ pc[h] = "done"
    /\ call[g].op = "StateTransition" /\ call[h].op = "StateTransition"
    /\ call[g].arg # call[h].arg
    /\ start.state # Sentinel
    /\ {call[g].arg, call[h].arg} \subseteq Lookup(start.transitions, start.state)
    /\ {call[g].arg, call[h].arg} \subseteq DOMAIN start.transitions
    /\ call[h].arg \notin Lookup(start.transitions, call[g].arg)
    /\ call[g].arg \notin Lookup(start.transitions, call[h].arg)
    /\ \A k \in Goroutines \ {g, h} : ~IsWriter(call[k].op)

\* C13: whenever no call is running, the results the goroutines got and the
\* machine's fields are those of the same calls made one at a time in some
\* order; and of two racing transitions from S to T1 and to T2, neither of
\* which permits the other, exactly one returned nil.
C13_CallsAreAtomic ==
    Quiescent =>
        /\ \E o \in Orders : Explains(start, o)
        /\ \A g, h \in Goroutines :
              ForkRace(g, h) => (result[g].err.nil # result[h].err.nil)

\* C13 witness: two transitions raced from the fork state, each waiting while
\* the other was in flight, and one of them lost
C13_Witness ==
    /\ Quiescent
    /\ \E g, h \in Goroutines :
          /\ ForkRace(g, h)
          /\ result[g].err.nil
          /\ result[h].err = newErrorStruct(ErrorTransitionNotPermitted)

\* C14: while a goroutine is inside the critical section of
\* AddStateTransitionRules or StateTransition no other goroutine is inside a
\* critical section of the machine; CurrentState and StateTransitionRules
\* calls may be inside theirs together (the witness).
C14_WritersExclude ==
    \A g \in Goroutines :
        (InCS(g) /\ IsWriter(call[g].op)) =>
            \A h \in Goroutines \ {g} : ~InCS(h)

\* C14 witness: a CurrentState call and a StateTransitionRules call are inside
\* their critical sections at the same time while a StateTransition call waits
C14_Witness ==
    \E g, h, w \in Goroutines :
        /\ g # h
        /\ InCS(g) /\ call[g].op = "CurrentState"
        /\ InCS(h) /\ call[h].op = "StateTransitionRules"
        /\ pc[w] = "wait" /\ call[w].op = "StateTransition"

\* C20: the mutex is free whenever no call is running, whatever the calls
\* returned, and under fair scheduling every call that has begun returns.
C20_EveryCallReturns ==
    /\ [](Quiescent => mu = Unheld)
    /\ \A g \in Goroutines : (pc[g] = "wait") ~> (pc[g] = "done")

\* C20 witness: a StateTransition call has returned an error and after it
\* another goroutine is inside AddStateTransitionRules or StateTransition
C20_Witness ==
    \E g, h \in Goroutines :
        /\ g # h
        /\ pc[g] = "done" /\ call[g].op = "StateTransition"
        /\ ~result[g].err.nil
        /\ InCS(h) /\ IsWriter(call[h].op)

\* the handler calls that were scheduled, not made in line, in the order in
\* which they ran
AsyncInvoked == SelectSeq(invoked, LAMBDA e : ~dispatched[e.n].sync)

\* C15: with a handler registered in synchronous mode, when a successful
\* StateTransition(T) made from a state other than "" returns, the handler has
\* been called with T for this transition and that call is over: nothing of
\* it is left to run.
C15_SyncHandlerDoneAtReturn ==
    (IsTransition /\ ret.err.nil /\ pre.state # Sentinel
        /\ callback.set /\ callback.sync) =>
        LET n == Len(dispatched)
        IN /\ n >= 1
           /\ dispatched[n] = [to |-> ret.arg, sync |-> TRUE]
           /\ n \notin pending
           /\ invoked # <<>>
           /\ invoked[Len(invoked)] = [n |-> n, s |-> ret.arg]

\* C15 witness: a second successful transition in synchronous mode has just
\* returned, so the handler has run twice, last with the new state
C15_Witness ==
    /\ IsTransition /\ ret.err.nil /\ pre.state # Sentinel
    /\ callback.set /\ callback.sync
    /\ Len(invoked) = 2
    /\ invoked[2].s = state
    /\ invoked[1].s # state

\* C16: a step notifies the handler only if it is a StateTransition that
\* returns nil and was made from a state other than "" with a handler
\* registered, and the notification is for the state just entered; and the
\* handler runs only for a notification so made, once for each.
C16_HandlerOnlyOnSuccessfulSubsequent ==
    [][ /\ dispatched' # dispatched =>
              /\ ret'.op = "StateTransition"
              /\ ret'.err.nil
              /\ state # Sentinel
              /\ callback.set
              /\ state' = ret'.arg
              /\ dispatched' =
                    Append(dispatched, [to |-> ret'.arg, sync |-> callback.sync])
        /\ invoked' # invoked =>
              \E n \in 1..Len(dispatched') :
                  /\ invoked' = Append(invoked, [n |-> n, s |-> dispatched'[n].to])
                  /\ \A i \in 1..Len(invoked) : invoked[i].n # n
      ]_vars

\* C16 witness: with a handler registered, the initial transition has
\* succeeded and a subsequent transition has just failed, and the handler has
\* not been notified of either
C16_Witness ==
    /\ callback.set
    /\ IsTransition /\ ~ret.err.nil /\ pre.state # Sentinel
    /\ succeeded
    /\ dispatched = <<>> /\ invoked = <<>>

C17_AsyncReturnsWithoutWaiting ==
    (IsTransition /\ ret.err.nil /\ pre.state # Sentinel
        /\ callback.set /\ ~callback.sync) =>
        /\ Len(dispatched) >= 1
        /\ dispatched[Len(dispatched)] = [to |-> ret.arg, sync |-> FALSE]
        /\ Len(dispatched) \in pending

\* and, when the scheduler runs every scheduled call, each scheduled handler
\* call is made
C17_EventuallyDelivered ==
    \A n \in 1..(MaxDispatch + 1) :
        (n \in pending) ~> (\E i \in 1..Len(invoked) : invoked[i].n = n)

====
